---- MODULE Spec2Model ----
(***************************************************************************)
(* Py4HPC notebooks: the numeric kernels of 02_numba_intro.ipynb and       *)
(* 03_numba_blond.ipynb and the Numba dispatcher behaviour the notebooks   *)
(* demonstrate.  Floating-point numbers are fixed-point integers: the real *)
(* r is the integer r * SCALE, and every arithmetic step rounds down, in   *)
(* the order in which the code performs it.                                *)
(***************************************************************************)
EXTENDS Integers, Sequences, FiniteSets, TLC

\* ------------------------------------------------------------------ bounds
\* fixed-point resolution: 1.0 is SCALE
SCALE == 1000
\* longest array a cell is given
MaxLen == 3
\* threads of the parallel (prange) runtime
NThreads == 2

\* a cell's result: NoRes before the cell ran, Some(v) after it returned v
NoRes == <<>>

Some(v) == <<v>>

Val(r) == r[1]

\* ------------------------------------------------------------- arithmetic
Abs(a) == IF a < 0 THEN -a ELSE a

Fx(n) == n * SCALE

FxMul(a, b) == (a * b) \div SCALE

FxDiv(a, b) == IF b > 0 THEN (a * SCALE) \div b ELSE -((a * SCALE) \div (-b))

RECURSIVE SqrtSearch(_, _, _)
SqrtSearch(n, lo, hi) ==
    IF lo >= hi THEN lo
    ELSE LET mid == (lo + hi + 1) \div 2
         IN IF mid * mid <= n THEN SqrtSearch(n, mid, hi)
                              ELSE SqrtSearch(n, lo, mid - 1)

\* math.sqrt / np.sqrt of a non-negative number
FxSqrt(a) == SqrtSearch(a * SCALE, 0, 40000)

\* math.pi
FxPi == (314159 * SCALE) \div 100000

\* math.exp / np.exp: exp(a) = exp(a/8)^8, the inner one by its series
ExpSeries(r) ==
    LET r2 == FxMul(r, r)
        r3 == FxMul(r2, r)
        r4 == FxMul(r3, r)
    IN SCALE + r + (r2 \div 2) + (r3 \div 6) + (r4 \div 24)

FxExp(a) ==
    LET e1 == ExpSeries(a \div 8)
        e2 == FxMul(e1, e1)
        e4 == FxMul(e2, e2)
    IN FxMul(e4, e4)

\* math.sin / np.sin: the argument reduced to [-pi, pi), then the series
SinSeries(r) ==
    LET r2 == FxMul(r, r)
        r3 == FxMul(r2, r)
        r5 == FxMul(r3, r2)
    IN r - (r3 \div 6) + (r5 \div 120)

FxSin(a) == SinSeries(((a + FxPi) % (2 * FxPi)) - FxPi)

\* ---------------------------------------------------------------- arrays
\* numpy arrays are sequences, index i of the code is position i + 1
Arrays(S, n) == UNION {[1..k -> S] : k \in 0..n}

\* np.allclose(a, b): |a - b| <= atol + rtol * |b| with rtol = 1e-5 (atol = 1e-8
\* is below the resolution)
AllClose(a, b) ==
    /\ Len(a) = Len(b)
    /\ \A i \in 1..Len(a) : Abs(a[i] - b[i]) * 100000 <= Abs(b[i])

\* ------------------------------------------------------------------ state
VARIABLES
    x_arr,        \* the input array of the pdf cells
    vec_res,      \* what vec_pdf(x_arr) returned, NoRes before the cell ran
    numpy_res,    \* what numpy_pdf(x_arr) returned
    allclose_res, \* what the np.allclose cell printed
    par_pc,       \* parallel_jit_pdf: "idle", "running" or "done"
    ret_arr,      \* the array parallel_jit_pdf fills
    iter,         \* per prange iteration: "todo", "taken" or "done"
    thr,          \* per thread: the iteration it runs (0: none) and the x it read
    writers,      \* per index of ret_arr: the iterations that wrote it, in order
    par_res,      \* what parallel_jit_pdf(x_arr) returned
    seq_res,      \* what unrolled_pdf(x_arr) returned
    secure_pass,  \* the global the access functions compare with
    access_const, \* the value of secure_pass compiled into get_access_jit,
                  \* NoRes while nothing is compiled
    first_pass,   \* secure_pass at the first call of get_access_jit
    recompile_pass, \* secure_pass at the latest get_access_jit.recompile()
    recompile_had,  \* whether that recompile() found a compiled signature
    last_py,      \* the latest call of get_access: input, result, secure_pass
    last_jit,     \* the latest call of get_access_jit: input, result,
                  \* secure_pass, and recompile_pass as it then was
    dt,           \* intro kick: the time coordinates
    dE,           \* intro kick: the energies, updated in place
    voltage, omega, phi, acc_kick,   \* intro kick: the scalars
    dE_init,      \* dE as the random initialisation produced it
    dE_prev,      \* dE at the start of the latest kick call
    last_kick,    \* the variant called last, NoRes before the first call
    kick_runs,    \* calls of a kick variant so far
    A, B, C,      \* discriminant: the coefficient arrays
    A_init, B_init, C_init,   \* the coefficient arrays as generated
    disc_res,     \* the variant called last and the array X it returned
    trk_dt,       \* tracking: the time coordinates, updated in place by drift
    trk_dE,       \* tracking: the energies, updated in place by kick
    profile,      \* tracking: the caller's profile array
    params,       \* tracking: the other arguments of the loop functions
    loop_name,    \* the loop function called (last), NoRes before the first call
    loop_i,       \* the loop variable i of the call in progress
    loop_pc,      \* the statement of the loop body to run next, 0 outside a call
    loop_calls,   \* calls of a loop function so far
    events,       \* the steps the current (last) call ran: statement and i
    histo_jit_parallel,  \* tracking: the function the global name is bound to
    call_binding, \* tracking: what histo_jit_parallel named when the call began
    histo_log,    \* tracking: loop, binding at the call and function of each
                  \* histogram step so far
    trk_prev,     \* tracking: dt, dE, profile and the stations before the
                  \* latest step
    add_sigs,     \* the signatures add_jit is compiled for
    add_called,   \* the argument-type tuples add_jit has been called with
    add_ncalls,   \* calls of add_jit so far
    last_add,     \* the latest call of add_jit: arguments, outcome, and the
                  \* signatures compiled before it
    inspect_out,  \* what the latest add_jit.inspect_types() listed
    last_njit,    \* the latest call of add_njit: arguments and outcome
    njit_sigs,    \* the signatures add_njit is compiled for
    vec_arg,      \* the scalar or array the pdf functions are called with
    pdf_call,     \* how standard_normal_pdf(vec_arg) ended
    vec_call,     \* how vec_pdf(vec_arg) ended
    h_dt,         \* histogram: the dt argument
    h_profile,    \* histogram: the profile argument, updated in place
    h_profile0,   \* histogram: profile as it was on entry
    h_cut,        \* histogram: cut_left and cut_right
    h_fn,         \* histogram: the function that was called
    h_pc,         \* histogram: where the call is
    target_bin,   \* histogram: the local array target_bin
    h_computed,   \* histogram: the elements of target_bin computed so far
    h_next,       \* histogram: the next i of the accumulation loop
    h_worker,     \* histogram: the pending increment of each worker of the loop
    h_oob,        \* histogram: whether profile was indexed outside its bounds
    b_args,       \* benchmark: n_repeat and n_warmup
    b_pc,         \* benchmark: the statement to run next (0: not called)
    b_i,          \* benchmark: i of the running for loop
    b_log,        \* benchmark: what the host has done so far, in order
    b_clock,      \* benchmark: the time, in ms
    b_stream,     \* benchmark: kernels and events the device has not reached
    b_events,     \* benchmark: when the device reached start_gpu and end_gpu
    b_cpu,        \* benchmark: start_cpu and end_cpu
    b_t,          \* benchmark: t_gpu and t_cpu
    b_out,        \* benchmark: the averages printed
    b_status,     \* benchmark: running, returned, or the error raised
    tbl_versions, \* table: the versions compared, in table order
    tbl_times,    \* table: the .average of the timings, in table order
    rows,         \* table: the list rows
    tbl_pc,       \* table: building rows, rounding them, or printed
    tbl_i,        \* table: the row the running loop is at
    table         \* table: the rows added to the PrettyTable

pdfVars == <<x_arr, vec_res, numpy_res, allclose_res>>

prangeVars == <<par_pc, ret_arr, iter, thr, writers, par_res, seq_res>>

accessVars == <<secure_pass, access_const, first_pass, recompile_pass,
                recompile_had, last_py, last_jit>>

kickVars == <<dt, dE, voltage, omega, phi, acc_kick, dE_init, dE_prev,
              last_kick, kick_runs>>

discVars == <<A, B, C, A_init, B_init, C_init, disc_res>>

trackVars == <<trk_dt, trk_dE, profile, params, loop_name, loop_i, loop_pc,
               loop_calls, events, histo_jit_parallel, call_binding, histo_log,
               trk_prev>>

addVars == <<add_sigs, add_called, add_ncalls, last_add, inspect_out>>

njitVars == <<last_njit, njit_sigs>>

vecVars == <<vec_arg, pdf_call, vec_call>>

histoVars == <<h_dt, h_profile, h_profile0, h_cut, h_fn, h_pc, target_bin,
               h_computed, h_next, h_worker, h_oob>>

benchVars == <<b_args, b_pc, b_i, b_log, b_clock, b_stream, b_events, b_cpu,
               b_t, b_out, b_status>>

tableVars == <<tbl_versions, tbl_times, rows, tbl_pc, tbl_i, table>>

vars == <<pdfVars, prangeVars, accessVars, kickVars, discVars, trackVars,
          addVars, njitVars, vecVars, histoVars, benchVars, tableVars>>

\* what the cells of one part of the notebooks leave alone
exceptPdf == <<prangeVars, accessVars, kickVars, discVars, trackVars,
               addVars, njitVars, vecVars, histoVars, benchVars, tableVars>>

exceptPrange == <<pdfVars, accessVars, kickVars, discVars, trackVars,
                  addVars, njitVars, vecVars, histoVars, benchVars,
                  tableVars>>

exceptAccess == <<pdfVars, prangeVars, kickVars, discVars, trackVars,
                  addVars, njitVars, vecVars, histoVars, benchVars,
                  tableVars>>

exceptKick == <<pdfVars, prangeVars, accessVars, discVars, trackVars,
                addVars, njitVars, vecVars, histoVars, benchVars, tableVars>>

exceptDisc == <<pdfVars, prangeVars, accessVars, kickVars, trackVars,
                addVars, njitVars, vecVars, histoVars, benchVars, tableVars>>

exceptTrack == <<pdfVars, prangeVars, accessVars, kickVars, discVars,
                 addVars, njitVars, vecVars, histoVars, benchVars, tableVars>>

exceptAdd == <<pdfVars, prangeVars, accessVars, kickVars, discVars,
               trackVars, njitVars, vecVars, histoVars, benchVars, tableVars>>

exceptNjit == <<pdfVars, prangeVars, accessVars, kickVars, discVars,
                trackVars, addVars, vecVars, histoVars, benchVars, tableVars>>

exceptVec == <<pdfVars, prangeVars, accessVars, kickVars, discVars,
               trackVars, addVars, njitVars, histoVars, benchVars, tableVars>>

exceptHisto == <<pdfVars, prangeVars, accessVars, kickVars, discVars,
                 trackVars, addVars, njitVars, vecVars, benchVars, tableVars>>

exceptBench == <<pdfVars, prangeVars, accessVars, kickVars, discVars,
                 trackVars, addVars, njitVars, vecVars, histoVars, tableVars>>

exceptTable == <<pdfVars, prangeVars, accessVars, kickVars, discVars,
                 trackVars, addVars, njitVars, vecVars, histoVars, benchVars>>

\* ------------------------------------------------ the normal pdf (intro)
XValues == {Fx(-4), -(SCALE \div 2), 0, Fx(1)}

standard_normal_pdf(x) ==
    FxDiv(FxExp(FxDiv(-FxMul(x, x), Fx(2))), FxSqrt(FxMul(Fx(2), FxPi)))

\* vectorize()(standard_normal_pdf): the scalar kernel at every element
vec_pdf(x) == [i \in 1..Len(x) |-> standard_normal_pdf(x[i])]

ArrSquare(x) == [i \in 1..Len(x) |-> FxMul(x[i], x[i])]
ArrNeg(x) == [i \in 1..Len(x) |-> -x[i]]
ArrDivScalar(x, s) == [i \in 1..Len(x) |-> FxDiv(x[i], s)]
ArrExp(x) == [i \in 1..Len(x) |-> FxExp(x[i])]

\* numpy_pdf with the halving of the exponent left out
numpy_pdf_nohalf(x) ==
    ArrDivScalar(ArrExp(ArrNeg(ArrSquare(x))), FxSqrt(FxMul(Fx(2), FxPi)))

numpy_pdf(x) ==
    ArrDivScalar(ArrExp(ArrDivScalar(ArrNeg(ArrSquare(x)), Fx(2))),
                 FxSqrt(FxMul(Fx(2), FxPi)))

PdfInit ==
    /\ x_arr \in Arrays(XValues, MaxLen)
    /\ vec_res = NoRes
    /\ numpy_res = NoRes
    /\ allclose_res = NoRes

RunVecPdf ==
    /\ vec_res = NoRes
    /\ vec_res' = Some(vec_pdf(x_arr))
    /\ UNCHANGED <<x_arr, numpy_res, allclose_res, exceptPdf>>

RunNumpyPdf ==
    /\ numpy_res = NoRes
    /\ numpy_res' = Some(numpy_pdf(x_arr))
    /\ UNCHANGED <<x_arr, vec_res, allclose_res, exceptPdf>>

RunAllclose ==
    /\ allclose_res = NoRes
    /\ allclose_res' = Some(AllClose(vec_pdf(x_arr), numpy_pdf(x_arr)))
    /\ UNCHANGED <<x_arr, vec_res, numpy_res, exceptPdf>>

PdfNext == RunVecPdf \/ RunNumpyPdf \/ RunAllclose

\* C1: for every input array x, vec_pdf(x) and numpy_pdf(x) have the length of
\* x and agree at every index within the tolerance of np.allclose, both being
\* the pdf of x[i]; the np.allclose cell prints True.
C1_PdfAgree ==
    /\ vec_res # NoRes =>
          /\ Len(Val(vec_res)) = Len(x_arr)
          /\ \A i \in 1..Len(x_arr) :
                Val(vec_res)[i] = standard_normal_pdf(x_arr[i])
    /\ numpy_res # NoRes =>
          /\ Len(Val(numpy_res)) = Len(x_arr)
          /\ \A i \in 1..Len(x_arr) :
                AllClose(<<Val(numpy_res)[i]>>, <<standard_normal_pdf(x_arr[i])>>)
    /\ (vec_res # NoRes /\ numpy_res # NoRes) =>
          AllClose(Val(vec_res), Val(numpy_res))
    /\ allclose_res # NoRes => Val(allclose_res) = TRUE

C1_Witness ==
    /\ Len(x_arr) = MaxLen
    /\ \E i, j \in 1..Len(x_arr) : x_arr[i] < 0 /\ x_arr[j] > 0
    /\ vec_res # NoRes
    /\ numpy_res # NoRes
    /\ allclose_res = Some(TRUE)
    /\ \E i \in 1..Len(x_arr) : Val(numpy_res)[i] > 0

\* -------------------------------------- unrolled and prange pdf (intro)
\* what np.empty_like leaves in the new array: anything
GarbageValues == {0, -1}

empty_like(x, g) == [i \in 1..Len(x) |-> g]

\* vec_pdf on one element: the scalar kernel
vec_pdf_scalar(x) == standard_normal_pdf(x)

RECURSIVE unrolled_loop(_, _, _)
unrolled_loop(x, ret, i) ==
    IF i > Len(x) THEN ret
    ELSE unrolled_loop(x, [ret EXCEPT ![i] = vec_pdf_scalar(x[i])], i + 1)

unrolled_pdf(x, g) == unrolled_loop(x, empty_like(x, g), 1)

\* the element of x_arr iteration i of the prange loop reads
PrangeSource(i) == i

\* an iteration that stores into its neighbour's element
PrangeTargetNeighbour(i) == IF i > 1 THEN i - 1 ELSE i

\* the element of ret_arr iteration i of the prange loop writes
PrangeTarget(i) == i

Threads == 1..NThreads

ThreadIdle == [i |-> 0, reg |-> 0]

PrangeIdle ==
    /\ par_pc = "idle"
    /\ ret_arr = <<>>
    /\ iter = <<>>
    /\ thr = [t \in Threads |-> ThreadIdle]
    /\ writers = <<>>
    /\ par_res = NoRes
    /\ seq_res = NoRes

\* the call: ret_arr = np.empty_like(x_arr), then the iterations are handed out
ParStart ==
    /\ par_pc = "idle"
    /\ \E g \in GarbageValues : ret_arr' = empty_like(x_arr, g)
    /\ iter' = [i \in 1..Len(x_arr) |-> "todo"]
    /\ writers' = [i \in 1..Len(x_arr) |-> <<>>]
    /\ par_pc' = "running"
    /\ UNCHANGED <<thr, par_res, seq_res, exceptPrange>>

\* a free thread takes any iteration not yet taken and reads its input
ParFetch ==
    /\ par_pc = "running"
    /\ \E t \in Threads, i \in 1..Len(x_arr) :
          /\ thr[t].i = 0
          /\ iter[i] = "todo"
          /\ thr' = [thr EXCEPT ![t] = [i |-> i, reg |-> x_arr[PrangeSource(i)]]]
          /\ iter' = [iter EXCEPT ![i] = "taken"]
    /\ UNCHANGED <<par_pc, ret_arr, writers, par_res, seq_res, exceptPrange>>

\* the thread stores the result of its iteration
ParStore ==
    /\ par_pc = "running"
    /\ \E t \in Threads :
          /\ thr[t].i # 0
          /\ LET i == thr[t].i
                 k == PrangeTarget(i)
             IN /\ ret_arr' = [ret_arr EXCEPT ![k] = vec_pdf_scalar(thr[t].reg)]
                /\ writers' = [writers EXCEPT ![k] = Append(@, i)]
                /\ iter' = [iter EXCEPT ![i] = "done"]
          /\ thr' = [thr EXCEPT ![t] = ThreadIdle]
    /\ UNCHANGED <<par_pc, par_res, seq_res, exceptPrange>>

\* all iterations joined: return ret_arr
ParReturn ==
    /\ par_pc = "running"
    /\ \A i \in 1..Len(x_arr) : iter[i] = "done"
    /\ par_res' = Some(ret_arr)
    /\ par_pc' = "done"
    /\ UNCHANGED <<ret_arr, iter, thr, writers, seq_res, exceptPrange>>

RunUnrolledPdf ==
    /\ seq_res = NoRes
    /\ \E g \in GarbageValues : seq_res' = Some(unrolled_pdf(x_arr, g))
    /\ UNCHANGED <<par_pc, ret_arr, iter, thr, writers, par_res, exceptPrange>>

PrangeNext == ParStart \/ ParFetch \/ ParStore \/ ParReturn \/ RunUnrolledPdf

\* C8: the prange loop has no dependencies between iterations: iteration i reads
\* only x_arr[i] and writes only ret_arr[i], so whatever the threads' shares and
\* interleaving, parallel_jit_pdf returns what the sequential unrolled_pdf
\* returns, every index written exactly once.
C8_PrangeIndependent ==
    /\ \A t \in Threads : thr[t].i # 0 => thr[t].reg = x_arr[thr[t].i]
    /\ par_pc # "idle" =>
          \A k \in 1..Len(x_arr) : \A n \in 1..Len(writers[k]) : writers[k][n] = k
    /\ par_res # NoRes =>
          /\ \A g \in GarbageValues : Val(par_res) = unrolled_pdf(x_arr, g)
          /\ \A k \in 1..Len(x_arr) : writers[k] = <<k>>
    /\ (par_res # NoRes /\ seq_res # NoRes) => par_res = seq_res

C8_Witness ==
    /\ Len(x_arr) = MaxLen
    /\ \E i, j \in 1..Len(x_arr) : x_arr[i] # x_arr[j]
    /\ par_res # NoRes
    /\ seq_res # NoRes
    /\ \E k \in 1..Len(x_arr) : Val(par_res)[k] > 0

\* ------------------------------------------ globals and Numba (intro)
Passwords == {"1234", "5678", "4321"}

Inputs == Passwords \cup {"0000"}

get_access(input_pass, pass) ==
    IF pass = input_pass THEN "Access Granted!" ELSE "Access Denied!"

\* a compiled function that reads the global afresh at every call
JitGlobalLive == secure_pass

\* the value of secure_pass the machine code of get_access_jit compares with:
\* the one compiled in, and the current one when this call compiles
JitGlobal == IF access_const # NoRes THEN Val(access_const) ELSE secure_pass

\* a recompile() that keeps the machine code it finds
RecompiledKeep == access_const

\* recompile() compiles every signature the dispatcher holds afresh, with the
\* globals as they are now; a dispatcher never called holds none
Recompiled == IF access_const # NoRes THEN Some(secure_pass) ELSE NoRes

AccessInit ==
    /\ secure_pass = "1234"
    /\ access_const = NoRes
    /\ first_pass = NoRes
    /\ recompile_pass = NoRes
    /\ recompile_had = FALSE
    /\ last_py = NoRes
    /\ last_jit = NoRes

SetSecurePass ==
    /\ \E p \in Passwords : secure_pass' = p
    /\ UNCHANGED <<access_const, first_pass, recompile_pass, recompile_had,
                   last_py, last_jit, exceptAccess>>

CallGetAccess ==
    /\ \E q \in Inputs :
          last_py' = Some([q |-> q, res |-> get_access(q, secure_pass),
                           pass |-> secure_pass])
    /\ UNCHANGED <<secure_pass, access_const, first_pass, recompile_pass,
                   recompile_had, last_jit, exceptAccess>>

CallGetAccessJit ==
    /\ \E q \in Inputs :
          last_jit' = Some([q |-> q, res |-> get_access(q, JitGlobal),
                            pass |-> secure_pass, recomp |-> recompile_pass,
                            had |-> recompile_had])
    /\ access_const' = Some(JitGlobal)
    /\ first_pass' = IF first_pass = NoRes THEN Some(secure_pass) ELSE first_pass
    /\ UNCHANGED <<secure_pass, recompile_pass, recompile_had, last_py,
                   exceptAccess>>

Recompile ==
    /\ access_const' = Recompiled
    /\ recompile_pass' = Some(secure_pass)
    /\ recompile_had' = (access_const # NoRes)
    /\ UNCHANGED <<secure_pass, first_pass, last_py, last_jit, exceptAccess>>

AccessNext == SetSecurePass \/ CallGetAccess \/ CallGetAccessJit \/ Recompile

\* C2: globals are compile-time constants: with get_access_jit first called while
\* secure_pass was p0 and no recompile() since, get_access_jit(q) grants exactly
\* q = p0 whatever secure_pass has become, and get_access(q) grants exactly the
\* current secure_pass.
C2_StaleGlobal ==
    /\ last_jit # NoRes /\ Val(last_jit).recomp = NoRes =>
          (Val(last_jit).res = "Access Granted!"
             <=> Val(last_jit).q = Val(first_pass))
    /\ last_py # NoRes =>
          (Val(last_py).res = "Access Granted!"
             <=> Val(last_py).q = Val(last_py).pass)
    /\ first_pass # NoRes /\ recompile_pass = NoRes =>
          \A q \in Inputs :
             /\ get_access(q, JitGlobal) = get_access(q, Val(first_pass))
             /\ get_access(q, secure_pass) = "Access Granted!" <=> q = secure_pass

\* the cell of the notebook: compiled with 1234, the pass is now 5678, the
\* compiled function denies 5678 and Python grants it
C2_Witness ==
    /\ first_pass = Some("1234")
    /\ recompile_pass = NoRes
    /\ secure_pass = "5678"
    /\ last_jit # NoRes
    /\ Val(last_jit).q = "5678"
    /\ Val(last_jit).pass = "5678"
    /\ Val(last_jit).res = "Access Denied!"
    /\ last_py # NoRes
    /\ Val(last_py).q = "5678"
    /\ Val(last_py).res = "Access Granted!"

\* C3 as stated: after recompile(), get_access_jit(q) grants exactly the value
\* secure_pass held at the time of that recompile().
C3_AsStated ==
    last_jit # NoRes /\ Val(last_jit).recomp # NoRes =>
        (Val(last_jit).res = "Access Granted!"
           <=> Val(last_jit).q = Val(Val(last_jit).recomp))

\* C3, amended: after a recompile() of a get_access_jit that had been called
\* before it, get_access_jit(q) grants exactly the value secure_pass held at
\* the time of that recompile(), whatever reassignments preceded or followed.
C3_AfterRecompile ==
    /\ last_jit # NoRes /\ Val(last_jit).recomp # NoRes /\ Val(last_jit).had =>
          (Val(last_jit).res = "Access Granted!"
             <=> Val(last_jit).q = Val(Val(last_jit).recomp))
    /\ recompile_pass # NoRes /\ recompile_had =>
          \A q \in Inputs :
             get_access(q, JitGlobal) = get_access(q, Val(recompile_pass))

\* the cell of the notebook: called with 1234, the pass set to 5678, recompile(),
\* and get_access_jit('5678') is granted
C3_Witness ==
    /\ first_pass = Some("1234")
    /\ recompile_pass = Some("5678")
    /\ recompile_had
    /\ last_jit # NoRes
    /\ Val(last_jit).recomp = Some("5678")
    /\ Val(last_jit).q = "5678"
    /\ Val(last_jit).res = "Access Granted!"

\* ------------------------------------------------ the energy kick (intro)
\* np.random.uniform draws from [0, 1)
UniformValues == {SCALE \div 4, (3 * SCALE) \div 4}

\* the loop of kick_unrolled from index i (1-based) up to index n
RECURSIVE kick_loop(_, _, _, _, _, _, _, _)
kick_loop(t, e, v, w, ph, acc, i, n) ==
    IF i > n THEN e
    ELSE kick_loop(t, [e EXCEPT ![i] = @ + (FxMul(v, FxSin(FxMul(w, t[i]) + ph)) + acc)],
                   v, w, ph, acc, i + 1, n)

\* kick_unrolled with a loop that stops one element early
kick_unrolled_short(t, e, v, w, ph, acc) ==
    kick_loop(t, e, v, w, ph, acc, 1, Len(t) - 1)

kick_unrolled(t, e, v, w, ph, acc) == kick_loop(t, e, v, w, ph, acc, 1, Len(t))

\* jit()(kick_unrolled): the same function, compiled
jitted_kick(t, e, v, w, ph, acc) == kick_unrolled(t, e, v, w, ph, acc)

ArrMulScalar(x, s) == [i \in 1..Len(x) |-> FxMul(s, x[i])]
ArrAddScalar(x, s) == [i \in 1..Len(x) |-> x[i] + s]
ArrSin(x) == [i \in 1..Len(x) |-> FxSin(x[i])]
ArrAdd(x, y) == [i \in 1..Len(x) |-> x[i] + y[i]]

\* dE += voltage * np.sin(omega * dt + phi) + acc_kick
kick_numpy(t, e, v, w, ph, acc) ==
    ArrAdd(e, ArrAddScalar(ArrMulScalar(ArrSin(ArrAddScalar(ArrMulScalar(t, w), ph)),
                                        v), acc))

KickVariants == {"kick_unrolled", "kick_numpy", "jitted_kick"}

Kick(variant, t, e, v, w, ph, acc) ==
    CASE variant = "kick_unrolled" -> kick_unrolled(t, e, v, w, ph, acc)
      [] variant = "kick_numpy" -> kick_numpy(t, e, v, w, ph, acc)
      [] variant = "jitted_kick" -> jitted_kick(t, e, v, w, ph, acc)

\* calls of the kick variants in one session (%timeit repeats its statement)
MaxKickRuns == 2

KickInit ==
    /\ \E n \in 0..MaxLen :
          /\ dt \in [1..n -> UniformValues]
          /\ dE \in [1..n -> UniformValues]
    /\ voltage \in UniformValues
    /\ omega \in UniformValues
    /\ phi \in UniformValues
    /\ acc_kick \in UniformValues
    /\ dE_init = dE
    /\ dE_prev = dE
    /\ last_kick = NoRes
    /\ kick_runs = 0

KickIdle ==
    /\ dt = <<>>
    /\ dE = <<>>
    /\ voltage = 0
    /\ omega = 0
    /\ phi = 0
    /\ acc_kick = 0
    /\ dE_init = <<>>
    /\ dE_prev = <<>>
    /\ last_kick = NoRes
    /\ kick_runs = 0

RunKick ==
    /\ kick_runs < MaxKickRuns
    /\ \E variant \in KickVariants :
          /\ dE' = Kick(variant, dt, dE, voltage, omega, phi, acc_kick)
          /\ last_kick' = Some(variant)
    /\ dE_prev' = dE
    /\ kick_runs' = kick_runs + 1
    /\ UNCHANGED <<dt, voltage, omega, phi, acc_kick, dE_init, exceptKick>>

KickNext == RunKick

\* C4: kick_unrolled, kick_numpy and jitted_kick are equivalent: whichever is
\* called, dE keeps its length and every dE[i] grows by
\* voltage * sin(omega * dt[i] + phi) + acc_kick.
C4_KickEquivalent ==
    /\ \A v1, v2 \in KickVariants :
          Kick(v1, dt, dE, voltage, omega, phi, acc_kick)
            = Kick(v2, dt, dE, voltage, omega, phi, acc_kick)
    /\ last_kick # NoRes =>
          /\ Len(dE) = Len(dE_prev)
          /\ \A i \in 1..Len(dE) :
                dE[i] = dE_prev[i]
                          + FxMul(voltage, FxSin(FxMul(omega, dt[i]) + phi))
                          + acc_kick

C4_Witness ==
    /\ Len(dE) = MaxLen
    /\ kick_runs = MaxKickRuns
    /\ last_kick = Some("kick_numpy")
    /\ \E i, j \in 1..Len(dt) : dt[i] # dt[j]
    /\ \A i \in 1..Len(dE) : dE[i] > dE_prev[i]

\* C22 as stated: every run of a kick variant starts from dE as the random
\* initialisation produced it, never from values an earlier run wrote.
C22_AsStated == last_kick # NoRes => dE_prev = dE_init

\* ------------------------------------------- the discriminant (intro)
\* longest coefficient array
MaxDiscLen == 2

AValues == {Fx(1), -((3 * SCALE) \div 2)}

BValues == {SCALE \div 4, (3 * SCALE) \div 4}

CValues == {Fx(-2), -((5 * SCALE) \div 4)}

\* the scalar function: (-b + math.sqrt(abs(b**2 - 4 * a * c))) / (2*a)
discriminant(a, b, c) ==
    FxDiv(-b + FxSqrt(Abs(FxMul(b, b) - FxMul(4 * a, c))), 2 * a)

\* vectorize()(discriminant): the scalar kernel at every element
vec_discriminant(a, b, c) ==
    [i \in 1..Len(a) |-> discriminant(a[i], b[i], c[i])]

\* the arrays a call can reach: its arguments and the X it makes
Heap(x, a, b, c) == [X |-> x, A |-> a, B |-> b, C |-> c]

\* the loop body of the unrolled variants at the indices of order, from its
\* n-th entry on
RECURSIVE disc_loop(_, _, _)
disc_loop(h, order, n) ==
    IF n > Len(order) THEN h
    ELSE LET i == order[n]
         IN disc_loop([h EXCEPT !.X[i] =
                          FxDiv(-h.B[i] + FxSqrt(Abs(FxMul(h.B[i], h.B[i])
                                                     - FxMul(4 * h.A[i], h.C[i]))),
                                2 * h.A[i])],
                      order, n + 1)

Ascending(n) == [i \in 1..n |-> i]

\* X = np.empty_like(A), then the loop over range(len(A))
unrolled_discriminant(a, b, c, g) ==
    disc_loop(Heap(empty_like(a, g), a, b, c), Ascending(Len(a)), 1)

Orders(n) == {o \in [1..n -> 1..n] : \A i, j \in 1..n : i # j => o[i] # o[j]}

\* the prange loop: its iterations in whatever order the threads run them
unrolled_explicitely_parallel_discriminant(a, b, c, g, order) ==
    disc_loop(Heap(empty_like(a, g), a, b, c), order, 1)

ArrMul(x, y) == [i \in 1..Len(x) |-> FxMul(x[i], y[i])]
ArrSub(x, y) == [i \in 1..Len(x) |-> x[i] - y[i]]
ArrDiv(x, y) == [i \in 1..Len(x) |-> FxDiv(x[i], y[i])]
ArrTimes(k, x) == [i \in 1..Len(x) |-> k * x[i]]
ArrAbs(x) == [i \in 1..Len(x) |-> Abs(x[i])]
ArrSqrt(x) == [i \in 1..Len(x) |-> FxSqrt(x[i])]

\* numpy_discriminant returning the other root
numpy_discriminant_minus(a, b, c) ==
    Heap(ArrDiv(ArrSub(ArrNeg(b),
                       ArrSqrt(ArrAbs(ArrSub(ArrSquare(b), ArrMul(ArrTimes(4, a), c))))),
                ArrTimes(2, a)),
         a, b, c)

\* (-B + np.sqrt(np.abs(B**2 - 4 * A * C)))/(2 * A)
numpy_discriminant(a, b, c) ==
    Heap(ArrDiv(ArrAdd(ArrNeg(b),
                       ArrSqrt(ArrAbs(ArrSub(ArrSquare(b), ArrMul(ArrTimes(4, a), c))))),
                ArrTimes(2, a)),
         a, b, c)

DiscInit ==
    /\ \E n \in 0..MaxDiscLen :
          /\ A \in [1..n -> AValues]
          /\ B \in [1..n -> BValues]
          /\ C \in [1..n -> CValues]
    /\ A_init = A
    /\ B_init = B
    /\ C_init = C
    /\ disc_res = NoRes

DiscIdle ==
    /\ A = <<>>
    /\ B = <<>>
    /\ C = <<>>
    /\ A_init = <<>>
    /\ B_init = <<>>
    /\ C_init = <<>>
    /\ disc_res = NoRes

\* the call returned: the heap it leaves and the X it hands back
DiscReturned(name, h) ==
    /\ disc_res' = Some([variant |-> name, X |-> h.X])
    /\ A' = h.A
    /\ B' = h.B
    /\ C' = h.C

RunUnrolledDiscriminant ==
    /\ \E g \in GarbageValues :
          DiscReturned("unrolled_discriminant", unrolled_discriminant(A, B, C, g))
    /\ UNCHANGED <<A_init, B_init, C_init, exceptDisc>>

RunParallelDiscriminant ==
    /\ \E g \in GarbageValues, order \in Orders(Len(A)) :
          DiscReturned("unrolled_explicitely_parallel_discriminant",
                       unrolled_explicitely_parallel_discriminant(A, B, C, g, order))
    /\ UNCHANGED <<A_init, B_init, C_init, exceptDisc>>

RunNumpyDiscriminant ==
    /\ DiscReturned("numpy_discriminant", numpy_discriminant(A, B, C))
    /\ UNCHANGED <<A_init, B_init, C_init, exceptDisc>>

RunVecDiscriminant ==
    /\ DiscReturned("discriminant", Heap(vec_discriminant(A, B, C), A, B, C))
    /\ UNCHANGED <<A_init, B_init, C_init, exceptDisc>>

DiscNext ==
    \/ RunUnrolledDiscriminant
    \/ RunParallelDiscriminant
    \/ RunNumpyDiscriminant
    \/ RunVecDiscriminant

\* C5: the discriminant variants agree: each returns an array X of the length of
\* A with X[i] = (-B[i] + sqrt(|B[i]^2 - 4 A[i] C[i]|)) / (2 A[i]) at every
\* index, and none of them modifies A, B or C.
C5_DiscriminantAgree ==
    /\ A = A_init /\ B = B_init /\ C = C_init
    /\ disc_res # NoRes =>
          /\ Len(Val(disc_res).X) = Len(A)
          /\ \A i \in 1..Len(A) :
                Val(disc_res).X[i] =
                   FxDiv(-B[i] + FxSqrt(Abs(FxMul(B[i], B[i]) - FxMul(4 * A[i], C[i]))),
                         2 * A[i])

C5_Witness ==
    /\ Len(A) = MaxDiscLen
    /\ \E i, j \in 1..Len(A) : A[i] < 0 /\ A[j] > 0
    /\ disc_res # NoRes
    /\ Val(disc_res).variant = "numpy_discriminant"
    /\ \E i, j \in 1..Len(A) : Val(disc_res).X[i] > 0 /\ Val(disc_res).X[j] < 0

\* ------------------------------------- the tracking loop (BLonD core)
n_iter == 10

\* most particles, RF stations and slices of a run
MaxParticles == 2

MaxStations == 1

MaxSlices == 2

\* calls of the loop functions in one session (%%timeit repeats its cell)
MaxLoopCalls == 2

\* the energy kick: dE += voltage[j] * np.sin(omega[j] * dt + phi[j]) for the
\* stations from j (1-based) on, then dE += acc_kick
RECURSIVE kick_stations(_, _, _, _, _, _)
kick_stations(t, e, v, w, ph, j) ==
    IF j > Len(v) THEN e
    ELSE kick_stations(t,
                       ArrAdd(e, ArrMulScalar(ArrSin(ArrAddScalar(ArrMulScalar(t, w[j]),
                                                                  ph[j])),
                                              v[j])),
                       v, w, ph, j + 1)

\* a kick that adds acc_kick with every station
trk_kick_numpy_acc_per_station(t, e, v, w, ph, acc) ==
    ArrAddScalar(kick_stations(t, e, v, w, ph, 1), Len(v) * acc)

trk_kick_numpy(t, e, v, w, ph, acc) ==
    ArrAddScalar(kick_stations(t, e, v, w, ph, 1), acc)

\* beam_delta of one particle
beam_delta(e, p) ==
    LET inv_beta_sq == FxDiv(SCALE, FxMul(p.beta, p.beta))
        inv_ene_sq == FxDiv(SCALE, FxMul(p.energy, p.energy))
    IN FxSqrt(SCALE + FxMul(inv_beta_sq,
                            FxMul(FxMul(e, e), inv_ene_sq) + FxDiv(2 * e, p.energy)))
         - SCALE

\* what drift adds to dt of one particle
drift_step(e, p) ==
    LET d == beam_delta(e, p)
        poly == SCALE + FxMul(p.alpha_zero, d) + FxMul(p.alpha_one, FxMul(d, d))
                  + FxMul(p.alpha_two, FxMul(FxMul(d, d), d))
    IN FxMul(FxMul(p.T0, p.length_ratio),
             FxDiv(FxMul(poly, SCALE + FxDiv(e, p.energy)), SCALE + d) - SCALE)

\* the time drift: dt += T0 * length_ratio * (...)
drift_numpy(t, e, p) == [i \in 1..Len(t) |-> t[i] + drift_step(e[i], p)]

\* np.histogram(a, bins, range=(lo, hi)): bins equal-width bins over [lo, hi],
\* each closed on the left and open on the right, the last closed on both
InBin(x, k, bins, lo, hi) ==
    \/ /\ lo * bins + (k - 1) * (hi - lo) <= x * bins
       /\ x * bins < lo * bins + k * (hi - lo)
    \/ k = bins /\ x = hi

np_histogram(a, bins, lo, hi) ==
    [k \in 1..bins |-> Cardinality({i \in 1..Len(a) : InBin(a[i], k, bins, lo, hi)})]

\* histo_numpy: the counts are bound to the local name profile; what is returned
\* here is the array the caller passed, as the call leaves it
histo_numpy(t, prof, lo, hi) ==
    LET local_profile == np_histogram(t, Len(prof), lo, hi)
    IN prof

\* inv_bin_width = len(profile) / (cut_right - cut_left)
inv_bin_width(bins, lo, hi) == FxDiv(Fx(bins), hi - lo)

\* one element of np.floor((dt - cut_left) * inv_bin_width), a whole number
TargetBin(x, bins, lo, hi) ==
    FxMul(x - lo, inv_bin_width(bins, lo, hi)) \div SCALE

\* a test that lets the bin len(profile) through
BinInRangeInclusive(b, bins) == b >= 0 /\ b <= bins

\* if target_bin[i] >= 0 and target_bin[i] < len(profile)
BinInRange(b, bins) == b >= 0 /\ b < bins

\* the position (1-based) profile[int(b)] names: a negative index counts from
\* the end
ProfileIndex(b, bins) == IF b < 0 THEN b + bins + 1 ELSE b + 1

\* the for loop of histo_unrolled from i (1-based) on, run in order
RECURSIVE histo_loop(_, _, _)
histo_loop(tb, prof, i) ==
    IF i > Len(tb) THEN prof
    ELSE IF BinInRange(tb[i], Len(prof))
              /\ ProfileIndex(tb[i], Len(prof)) \in 1..Len(prof)
         THEN histo_loop(tb,
                         [prof EXCEPT ![ProfileIndex(tb[i], Len(prof))] = @ + Fx(1)],
                         i + 1)
         ELSE histo_loop(tb, prof, i + 1)

\* histo_unrolled(dt, profile, cut_left, cut_right): profile as the call
\* leaves it
histo_unrolled(t, prof, lo, hi) ==
    histo_loop([i \in 1..Len(t) |-> TargetBin(t[i], Len(prof), lo, hi)], prof, 1)

\* a reset that leaves the counts
profile_keep(prof) == prof

\* profile *= 0.0
profile_reset(prof) == [k \in 1..Len(prof) |-> FxMul(prof[k], 0)]

\* the loop body with the drift ahead of the kick
LoopBodyDriftFirst == <<"drift", "kick", "reset", "histo">>

\* the statements of the body of the for loop of loop_numpy, loop_jit and
\* loop_jit_parallel, in order
LoopBody == <<"kick", "drift", "reset", "histo">>

Loops == {"loop_numpy", "loop_jit", "loop_jit_parallel"}

\* the RF stations of a run: the first n of these
StationVoltage(j) == SCALE \div (j + 1)

StationOmega(j) == (j * SCALE) \div 2

StationPhi(j) == ((j - 1) * SCALE) \div 4

\* the particles of a run: the first n of these
ParticleDt(i) == IF i % 2 = 1 THEN SCALE \div 4 ELSE (3 * SCALE) \div 4

ParticleDE(i) == IF i % 2 = 1 THEN -(SCALE \div 2) ELSE SCALE \div 2

TrackParams ==
    [cut_left : {0}, cut_right : {Fx(1)},
     voltage : {[j \in 1..n |-> StationVoltage(j)] : n \in 0..MaxStations},
     omega : {[j \in 1..n |-> StationOmega(j)] : n \in 0..MaxStations},
     phi : {[j \in 1..n |-> StationPhi(j)] : n \in 0..MaxStations},
     acc_kick : {SCALE \div 4}, T0 : {SCALE \div 2}, length_ratio : {Fx(1)},
     beta : {(99 * SCALE) \div 100}, energy : {Fx(32)},
     alpha_zero : {SCALE \div 4}, alpha_one : {SCALE \div 100},
     alpha_two : {SCALE \div 1000}]

\* the arrays a step of the loop is handed, by reference
StepArgs ==
    [dt |-> trk_dt, dE |-> trk_dE, profile |-> profile,
     voltage |-> params.voltage, omega |-> params.omega, phi |-> params.phi]

\* a kick that works out omega * dt + phi in dt itself
kick_call_in_dt(h, acc) ==
    [h EXCEPT !.dE = trk_kick_numpy(h.dt, h.dE, h.voltage, h.omega, h.phi, acc),
              !.dt = ArrAddScalar(h.dt, acc)]

\* kick_numpy(dt, dE, voltage, omega, phi, acc_kick): the arrays after the call
kick_call(h, acc) ==
    [h EXCEPT !.dE = trk_kick_numpy(h.dt, h.dE, h.voltage, h.omega, h.phi, acc)]

\* drift_numpy(dt, dE, T0, ...): the arrays after the call
drift_call(h, p) == [h EXCEPT !.dt = drift_numpy(h.dt, h.dE, p)]

\* profile *= 0.0
reset_call(h) == [h EXCEPT !.profile = profile_reset(h.profile)]

\* the histogram step, run by the function fn
histo_call(fn, h, lo, hi) ==
    [h EXCEPT !.profile = IF fn = "histo_unrolled"
                          THEN histo_unrolled(h.dt, h.profile, lo, hi)
                          ELSE histo_numpy(h.dt, h.profile, lo, hi)]

\* a loop_jit_parallel that keeps the histogram function of its definition
HistoAtDefinition == "histo_numpy"

\* the function the name histo_jit_parallel stands for when the statement of
\* loop_jit_parallel runs: the global is looked up then
HistoResolved == histo_jit_parallel

\* the histogram function of the running loop: histo_numpy, its jit histo_jit,
\* or what histo_jit_parallel names
HistoStep ==
    IF loop_name = Some("loop_jit_parallel") THEN HistoResolved ELSE "histo_numpy"

TrackInit ==
    /\ \E n \in 0..MaxParticles :
          /\ trk_dt = [i \in 1..n |-> ParticleDt(i)]
          /\ trk_dE = [i \in 1..n |-> ParticleDE(i)]
    /\ \E n_slices \in 1..MaxSlices : profile = [k \in 1..n_slices |-> 0]
    /\ params \in TrackParams
    /\ Len(params.voltage) = Len(params.omega)
    /\ Len(params.voltage) = Len(params.phi)
    /\ loop_name = NoRes
    /\ loop_i = 0
    /\ loop_pc = 0
    /\ loop_calls = 0
    /\ events = <<>>
    /\ histo_jit_parallel = "histo_numpy"
    /\ call_binding = NoRes
    /\ histo_log = {}
    /\ trk_prev = NoRes

TrackIdle ==
    /\ trk_dt = <<>>
    /\ trk_dE = <<>>
    /\ profile = <<>>
    /\ params = <<>>
    /\ loop_name = NoRes
    /\ loop_i = 0
    /\ loop_pc = 0
    /\ loop_calls = 0
    /\ events = <<>>
    /\ histo_jit_parallel = "histo_numpy"
    /\ call_binding = NoRes
    /\ histo_log = {}
    /\ trk_prev = NoRes

\* after the statement at loop_pc: the next statement, the next iteration, or
\* the end of range(n_iter)
Advance ==
    IF loop_pc < Len(LoopBody)
    THEN loop_pc' = loop_pc + 1 /\ loop_i' = loop_i
    ELSE /\ loop_i' = loop_i + 1
         /\ loop_pc' = IF loop_i + 1 < n_iter THEN 1 ELSE 0

Logged(op) == events' = Append(events, [op |-> op, i |-> loop_i])

\* the arrays as the step leaves them; fn is the function the step ran
Stored(h, fn) ==
    /\ trk_dt' = h.dt
    /\ trk_dE' = h.dE
    /\ profile' = h.profile
    /\ params' = [params EXCEPT !.voltage = h.voltage, !.omega = h.omega,
                                !.phi = h.phi]
    /\ trk_prev' = Some([fn |-> fn, args |-> StepArgs])

CallLoop ==
    /\ loop_pc = 0
    /\ loop_calls < MaxLoopCalls
    /\ \E name \in Loops : loop_name' = Some(name)
    /\ loop_calls' = loop_calls + 1
    /\ loop_i' = 0
    /\ loop_pc' = IF n_iter > 0 THEN 1 ELSE 0
    /\ events' = <<>>
    /\ call_binding' = Some(histo_jit_parallel)
    /\ UNCHANGED <<trk_dt, trk_dE, profile, params, histo_jit_parallel,
                   histo_log, trk_prev, exceptTrack>>

\* the cell histo_jit_parallel = njit(parallel=True)(histo_unrolled); cells run
\* one at a time
RebindHisto ==
    /\ loop_pc = 0
    /\ histo_jit_parallel' = "histo_unrolled"
    /\ UNCHANGED <<trk_dt, trk_dE, profile, params, loop_name, loop_i, loop_pc,
                   loop_calls, events, call_binding, histo_log, trk_prev,
                   exceptTrack>>

LoopKick ==
    /\ loop_pc > 0
    /\ LoopBody[loop_pc] = "kick"
    /\ Stored(kick_call(StepArgs, params.acc_kick), "kick_numpy")
    /\ Logged("kick")
    /\ Advance
    /\ UNCHANGED <<loop_name, loop_calls, histo_jit_parallel, call_binding,
                   histo_log, exceptTrack>>

LoopDrift ==
    /\ loop_pc > 0
    /\ LoopBody[loop_pc] = "drift"
    /\ Stored(drift_call(StepArgs, params), "drift_numpy")
    /\ Logged("drift")
    /\ Advance
    /\ UNCHANGED <<loop_name, loop_calls, histo_jit_parallel, call_binding,
                   histo_log, exceptTrack>>

LoopReset ==
    /\ loop_pc > 0
    /\ LoopBody[loop_pc] = "reset"
    /\ Stored(reset_call(StepArgs), "reset")
    /\ Logged("reset")
    /\ Advance
    /\ UNCHANGED <<loop_name, loop_calls, histo_jit_parallel, call_binding,
                   histo_log, exceptTrack>>

LoopHisto ==
    /\ loop_pc > 0
    /\ LoopBody[loop_pc] = "histo"
    /\ Stored(histo_call(HistoStep, StepArgs, params.cut_left, params.cut_right),
              HistoStep)
    /\ histo_log' = histo_log \cup {[loop |-> Val(loop_name),
                                      bound |-> Val(call_binding),
                                      fn |-> HistoStep]}
    /\ Logged("histo")
    /\ Advance
    /\ UNCHANGED <<loop_name, loop_calls, histo_jit_parallel, call_binding,
                   exceptTrack>>

TrackNext ==
    CallLoop \/ RebindHisto \/ LoopKick \/ LoopDrift \/ LoopReset \/ LoopHisto

\* C6 as stated: after histo_numpy(dt, profile, cut_left, cut_right) returns, the
\* caller's profile holds in every bin k the number of elements of dt in the
\* k-th of len(profile) equal-width bins over [cut_left, cut_right].
C6_AsStated ==
    (Len(events) > 0 /\ events[Len(events)].op = "histo"
                     /\ Val(trk_prev).fn = "histo_numpy") =>
        profile = np_histogram(trk_dt, Len(profile), params.cut_left,
                               params.cut_right)

\* C7: a call of a loop function runs exactly n_iter iterations, each of them
\* kick, then drift, then the reset of profile, then the histogram: the n-th
\* step of a call is the ((n - 1) mod 4 + 1)-th of these, in iteration
\* (n - 1) div 4.
C7_LoopOrder ==
    /\ Len(events) <= 4 * n_iter
    /\ \A n \in 1..Len(events) :
          /\ events[n].op = <<"kick", "drift", "reset", "histo">>[((n - 1) % 4) + 1]
          /\ events[n].i = (n - 1) \div 4
    /\ (loop_name # NoRes /\ loop_pc = 0) => Len(events) = 4 * n_iter
    /\ loop_pc > 0 => Len(events) = 4 * loop_i + (loop_pc - 1)

C7_Witness ==
    /\ loop_name = Some("loop_jit_parallel")
    /\ loop_calls = MaxLoopCalls
    /\ loop_pc = 0
    /\ Len(events) = 4 * n_iter
    /\ events[Len(events)] = [op |-> "histo", i |-> n_iter - 1]
    /\ Len(trk_dt) = MaxParticles
    /\ Len(params.voltage) = MaxStations

\* C15: in loop_jit_parallel with histo_jit_parallel bound to histo_unrolled the
\* profile is zeroed before every histogram step: after the step, in every
\* iteration of every call, 0 <= profile[k], sum(profile) <= len(dt), and the
\* counts are those of the dt of this iteration alone.
C15_ProfileZeroed ==
    (/\ Len(events) > 0
     /\ events[Len(events)].op = "histo"
     /\ loop_name = Some("loop_jit_parallel")
     /\ Val(trk_prev).fn = "histo_unrolled") =>
       LET bins == Len(profile)
           total[k \in 0..bins] == IF k = 0 THEN 0 ELSE total[k - 1] + profile[k]
       IN /\ \A k \in 1..bins : profile[k] >= 0
          /\ total[bins] <= Fx(Len(trk_dt))
          /\ profile = histo_unrolled(trk_dt, [k \in 1..bins |-> 0],
                                      params.cut_left, params.cut_right)

C15_Witness ==
    /\ loop_name = Some("loop_jit_parallel")
    /\ loop_calls = MaxLoopCalls
    /\ loop_pc = 0
    /\ events # <<>>
    /\ events[Len(events)] = [op |-> "histo", i |-> n_iter - 1]
    /\ Val(trk_prev).fn = "histo_unrolled"
    /\ [loop |-> "loop_jit_parallel", bound |-> "histo_unrolled",
        fn |-> "histo_unrolled"] \in histo_log
    /\ Len(trk_dt) = MaxParticles
    /\ \E k \in 1..Len(profile) : profile[k] >= Fx(1)

\* C17: loop_jit_parallel looks the name histo_jit_parallel up when it runs:
\* a call begun after the rebinding runs histo_unrolled in its histogram
\* steps, a call begun before ran histo_numpy, the other loops always run
\* histo_numpy, and the kick and drift steps are what they were.
C17_BindingAtCall ==
    /\ \A e \in histo_log :
          /\ e.loop = "loop_jit_parallel" => e.fn = e.bound
          /\ e.loop # "loop_jit_parallel" => e.fn = "histo_numpy"
    /\ (Len(events) > 0 /\ events[Len(events)].op = "kick") =>
          LET a == Val(trk_prev).args
          IN /\ Val(trk_prev).fn = "kick_numpy"
             /\ trk_dE = trk_kick_numpy(a.dt, a.dE, a.voltage, a.omega, a.phi,
                                        params.acc_kick)
    /\ (Len(events) > 0 /\ events[Len(events)].op = "drift") =>
          LET a == Val(trk_prev).args
          IN /\ Val(trk_prev).fn = "drift_numpy"
             /\ trk_dt = drift_numpy(a.dt, a.dE, params)

C17_Witness ==
    /\ [loop |-> "loop_jit_parallel", bound |-> "histo_numpy",
        fn |-> "histo_numpy"] \in histo_log
    /\ [loop |-> "loop_jit_parallel", bound |-> "histo_unrolled",
        fn |-> "histo_unrolled"] \in histo_log
    /\ histo_jit_parallel = "histo_unrolled"
    /\ loop_pc = 0

C19_FrameEffects ==
    /\ (Len(events) > 0 /\ events[Len(events)].op = "kick") =>
          LET a == Val(trk_prev).args
          IN /\ StepArgs = [a EXCEPT !.dE = trk_dE]
             /\ Len(trk_dE) = Len(a.dE)
             /\ \A i \in 1..Len(a.dE) :
                   trk_dE[i] = trk_kick_numpy(<<a.dt[i]>>, <<a.dE[i]>>, a.voltage,
                                              a.omega, a.phi, params.acc_kick)[1]
    /\ (Len(events) > 0 /\ events[Len(events)].op = "drift") =>
          LET a == Val(trk_prev).args
          IN /\ StepArgs = [a EXCEPT !.dt = trk_dt]
             /\ Len(trk_dt) = Len(a.dt)
             /\ \A i \in 1..Len(a.dt) :
                   trk_dt[i] = drift_numpy(<<a.dt[i]>>, <<a.dE[i]>>, params)[1]

C19_Witness ==
    /\ Len(events) > 1
    /\ events[Len(events)].op = "drift"
    /\ Len(trk_dt) = MaxParticles
    /\ Len(params.voltage) = MaxStations
    /\ trk_dt # Val(trk_prev).args.dt
    /\ trk_dE = Val(trk_prev).args.dE
    /\ trk_dE # [i \in 1..Len(trk_dE) |-> 0]

\* --------------------------------------- add and its dispatcher (intro)
\* calls of add_jit in one session
MaxAddCalls == 3

PyInt(n) == [type |-> "int", i |-> n]

PyFloat(f) == [type |-> "float", f |-> f]

PyStr(cs) == [type |-> "str", s |-> cs]

\* class Point: __init__ stores x and y
Point(x, y) == [type |-> "Point", x |-> x, y |-> y]

AddArgs == {PyInt(1), PyFloat(Fx(2)), PyStr(<<"a", "b">>), Point(1, 2), Point(3, 4)}

Returned(v) == [status |-> "ok", value |-> v]

Raised(e) == [status |-> e]

\* Point.__add__: only the attributes x and y of other are read
Point_add(self, other) ==
    IF other.type = "Point"
    THEN Returned(Point(self.x + other.x, self.y + other.y))
    ELSE Raised("AttributeError")

\* def add(a, b): return a + b, as Python runs it
add(a, b) ==
    CASE a.type = "Point" -> Point_add(a, b)
      [] a.type = "int" /\ b.type = "int" -> Returned(PyInt(a.i + b.i))
      [] a.type = "float" /\ b.type = "float" -> Returned(PyFloat(a.f + b.f))
      [] a.type = "int" /\ b.type = "float" -> Returned(PyFloat(Fx(a.i) + b.f))
      [] a.type = "float" /\ b.type = "int" -> Returned(PyFloat(a.f + Fx(b.i)))
      [] a.type = "str" /\ b.type = "str" -> Returned(PyStr(a.s \o b.s))
      [] OTHER -> Raised("TypeError")

\* the Numba type of an argument; a class Numba does not know is a pyobject
typeof(a) ==
    CASE a.type = "int" -> "int64"
      [] a.type = "float" -> "float64"
      [] a.type = "str" -> "unicode_type"
      [] OTHER -> "pyobject"

Signature(a, b) == <<typeof(a), typeof(b)>>

\* whether type inference of a + b succeeds
Inferable(a, b) ==
    \/ {typeof(a), typeof(b)} \subseteq {"int64", "float64"}
    \/ typeof(a) = "unicode_type" /\ typeof(b) = "unicode_type"

\* a call of jit(nopython=...)(add): compiled code where the types are
\* inferred; where they are not, an error in nopython mode and otherwise the
\* function run as Python objects
jit_call(nopython, a, b) ==
    IF Inferable(a, b) THEN [mode |-> "nopython", out |-> add(a, b)]
    ELSE IF nopython THEN [mode |-> "nopython", out |-> Raised("TypingError")]
    ELSE [mode |-> "pyobject", out |-> add(a, b)]

\* a jit that does not fall back
add_jit_strict(a, b) == jit_call(TRUE, a, b)

\* add_jit = jit()(add)
add_jit(a, b) == jit_call(FALSE, a, b)

\* a dispatcher that keeps only the signature it compiled last
CompiledOnlyLast(sigs, a, b) == {Signature(a, b)}

\* the signatures after a call with (a, b): the call compiles the signature of
\* its arguments unless the dispatcher holds it
Compiled(sigs, a, b) == sigs \cup {Signature(a, b)}

AddInit ==
    /\ add_sigs = {}
    /\ add_called = {}
    /\ add_ncalls = 0
    /\ last_add = NoRes
    /\ inspect_out = NoRes

CallAddJit ==
    /\ add_ncalls < MaxAddCalls
    /\ \E a, b \in AddArgs :
          /\ last_add' = Some([a |-> a, b |-> b, res |-> add_jit(a, b),
                               before |-> add_sigs])
          /\ add_sigs' = Compiled(add_sigs, a, b)
          /\ add_called' = add_called \cup {<<typeof(a), typeof(b)>>}
    /\ add_ncalls' = add_ncalls + 1
    /\ UNCHANGED <<inspect_out, exceptAdd>>

InspectTypes ==
    /\ inspect_out' = Some([listed |-> add_sigs, called |-> add_called])
    /\ UNCHANGED <<add_sigs, add_called, add_ncalls, last_add, exceptAdd>>

AddNext == CallAddJit \/ InspectTypes

C10_Fallback ==
    last_add # NoRes =>
       LET c == Val(last_add)
       IN /\ ~Inferable(c.a, c.b) => c.res.out = add(c.a, c.b)
          /\ (c.a.type = "Point" /\ c.b.type = "Point") =>
                /\ c.res.out.status = "ok"
                /\ c.res.out.value = Point(c.a.x + c.b.x, c.a.y + c.b.y)
          /\ (c.a = Point(1, 2) /\ c.b = Point(3, 4)) =>
                c.res.out = Returned(Point(4, 6))

C10_Witness ==
    /\ last_add # NoRes
    /\ Val(last_add).a = Point(1, 2)
    /\ Val(last_add).b = Point(3, 4)
    /\ Val(last_add).res.mode = "pyobject"
    /\ Val(last_add).res.out = Returned(Point(4, 6))
    /\ <<"pyobject", "pyobject">> \in add_sigs

\* ------------------------------------------------------ add_njit (intro)
\* a nopython jit that falls back as the default jit does
add_njit_fallback(a, b) == jit_call(FALSE, a, b)

\* add_njit = jit(nopython=True)(add)
add_njit(a, b) == jit_call(TRUE, a, b)

\* the signatures of add_njit after a call with (a, b): nothing is compiled
\* when the types are not inferred
NjitCompiled(sigs, a, b) ==
    IF Inferable(a, b) THEN sigs \cup {Signature(a, b)} ELSE sigs

NjitInit ==
    /\ last_njit = NoRes
    /\ njit_sigs = {}

\* res = add_njit(a, b): res is bound only when the call returns
CallAddNjit ==
    /\ \E a, b \in AddArgs :
          /\ last_njit' = Some([a |-> a, b |-> b, call |-> add_njit(a, b)])
          /\ njit_sigs' = NjitCompiled(njit_sigs, a, b)
    /\ UNCHANGED exceptNjit

NjitNext == CallAddNjit

\* C11: with nopython=True the fallback is an error: add_njit called with two
\* Points raises a typing error and returns no result, while add_njit called
\* with numbers returns their sum.
C11_NopythonError ==
    last_njit # NoRes =>
       LET c == Val(last_njit)
       IN /\ (c.a.type = "Point" /\ c.b.type = "Point") =>
                /\ c.call.out.status = "TypingError"
                /\ "value" \notin DOMAIN c.call.out
          /\ (c.a.type = "int" /\ c.b.type = "int") =>
                c.call.out = Returned(PyInt(c.a.i + c.b.i))
          /\ (c.a.type = "float" /\ c.b.type = "float") =>
                c.call.out = Returned(PyFloat(c.a.f + c.b.f))
          /\ (c.a.type = "int" /\ c.b.type = "float") =>
                c.call.out = Returned(PyFloat(Fx(c.a.i) + c.b.f))
          /\ (c.a.type = "float" /\ c.b.type = "int") =>
                c.call.out = Returned(PyFloat(c.a.f + Fx(c.b.i)))

C11_Witness ==
    /\ last_njit # NoRes
    /\ Val(last_njit).a = Point(1, 2)
    /\ Val(last_njit).b = Point(3, 4)
    /\ Val(last_njit).call.out = Raised("TypingError")
    /\ <<"int64", "int64">> \in njit_sigs
    /\ <<"pyobject", "pyobject">> \notin njit_sigs

\* ------------------------------------- scalars and arrays in the pdf (intro)
NdArray(xs) == [type |-> "ndarray", data |-> xs]

\* x_arr and the single element 0.
VecArgs == {PyFloat(f) : f \in XValues}
             \cup {NdArray(xs) : xs \in Arrays(XValues, MaxLen)}

\* math.exp and math.sqrt take a Python scalar: an array is converted with
\* __float__, which raises unless the array has exactly one element; whether
\* the one-element conversion is still accepted depends on the NumPy version
SizeOneConverts == BOOLEAN

math_scalar(x, conv) ==
    IF x.type = "float" THEN Returned(x.f)
    ELSE IF Len(x.data) = 1 /\ conv THEN Returned(x.data[1])
    ELSE Raised("TypeError")

\* the call standard_normal_pdf(x) as Python runs it: -x**2/2. is computed
\* element-wise, math.exp then needs a scalar
call_standard_normal_pdf(x, conv) ==
    LET arg == math_scalar(x, conv)
    IN IF arg.status = "ok"
       THEN Returned(PyFloat(standard_normal_pdf(arg.value)))
       ELSE arg

\* a vectorize that leaves the function as it was
call_vec_pdf_unvectorized(x) == call_standard_normal_pdf(x, FALSE)

\* the call vec_pdf(x) of the ufunc vectorize()(standard_normal_pdf)
call_vec_pdf(x) ==
    IF x.type = "float"
    THEN Returned(PyFloat(standard_normal_pdf(x.f)))
    ELSE Returned(NdArray(vec_pdf(x.data)))

VecInit ==
    /\ vec_arg \in VecArgs
    /\ pdf_call = NoRes
    /\ vec_call = NoRes

VecIdle ==
    /\ vec_arg = NoRes
    /\ pdf_call = NoRes
    /\ vec_call = NoRes

CallStandardNormalPdf ==
    /\ \E conv \in SizeOneConverts :
          pdf_call' = Some(call_standard_normal_pdf(vec_arg, conv))
    /\ UNCHANGED <<vec_arg, vec_call, exceptVec>>

CallVecPdf ==
    /\ vec_call' = Some(call_vec_pdf(vec_arg))
    /\ UNCHANGED <<vec_arg, pdf_call, exceptVec>>

VecNext == CallStandardNormalPdf \/ CallVecPdf

\* C12: standard_normal_pdf accepts a scalar and fails with an error for every
\* array whose length is not 1 (a one-element array may be converted to a
\* scalar); vec_pdf accepts both, returning a scalar for a scalar and for an
\* array an array of the same length whose i-th element is
\* standard_normal_pdf(x[i]).
C12_Vectorize ==
    /\ (pdf_call # NoRes /\ vec_arg.type = "float") =>
          Val(pdf_call) = Returned(PyFloat(standard_normal_pdf(vec_arg.f)))
    /\ (pdf_call # NoRes /\ vec_arg.type = "ndarray"
                          /\ Len(vec_arg.data) # 1) =>
          Val(pdf_call) = Raised("TypeError")
    /\ vec_call # NoRes =>
          /\ Val(vec_call).status = "ok"
          /\ vec_arg.type = "float" =>
                Val(vec_call).value = PyFloat(standard_normal_pdf(vec_arg.f))
          /\ vec_arg.type = "ndarray" =>
                /\ Val(vec_call).value.type = "ndarray"
                /\ Len(Val(vec_call).value.data) = Len(vec_arg.data)
                /\ \A i \in 1..Len(vec_arg.data) :
                      Val(vec_call).value.data[i]
                         = standard_normal_pdf(vec_arg.data[i])

\* C12 as stated: besides the above, standard_normal_pdf fails with an error
\* for every array, whatever its length.
C12_AsStated ==
    /\ C12_Vectorize
    /\ (pdf_call # NoRes /\ vec_arg.type = "ndarray") =>
          Val(pdf_call).status # "ok"

C12_Witness ==
    /\ vec_arg.type = "ndarray"
    /\ Len(vec_arg.data) = MaxLen
    /\ pdf_call = Some(Raised("TypeError"))
    /\ vec_call # NoRes
    /\ Val(vec_call).value.data = vec_pdf(vec_arg.data)

\* ------------------------------------ the unrolled histogram (BLonD core)
\* most particles and slices of one histogram call
MaxHistoLen == 2

MaxBins == 2

\* dt below, at and above the cuts and at a bin edge
HistoDtValues == {-(SCALE \div 4), 0, SCALE \div 4, SCALE \div 2, Fx(1),
                  (5 * SCALE) \div 4}

HistoCuts == {[cut_left |-> 0, cut_right |-> Fx(1)],
              [cut_left |-> -(SCALE \div 2), cut_right |-> (3 * SCALE) \div 2]}

HistoVariants == {"histo_unrolled", "histo_jit_parallel"}

\* an accumulation loop whose iterations are shared between the threads
AccumulateWorkersAll == Threads

\* the threads that run the iterations of for i in range(len(target_bin)):
\* a range loop is not parallelised
AccumulateWorkers == {1}

WorkerIdle == [pc |-> "idle", at |-> 0, val |-> 0]

HistoInit ==
    /\ h_dt \in Arrays(HistoDtValues, MaxHistoLen)
    /\ \E bins \in 1..MaxBins : h_profile \in [1..bins -> {0, Fx(1)}]
    /\ h_profile0 = h_profile
    /\ h_cut \in HistoCuts
    /\ h_fn = NoRes
    /\ h_pc = "idle"
    /\ target_bin = <<>>
    /\ h_computed = {}
    /\ h_next = 1
    /\ h_worker = [w \in Threads |-> WorkerIdle]
    /\ h_oob = FALSE

HistoIdle ==
    /\ h_dt = <<>>
    /\ h_profile = <<>>
    /\ h_profile0 = <<>>
    /\ h_cut = <<>>
    /\ h_fn = NoRes
    /\ h_pc = "idle"
    /\ target_bin = <<>>
    /\ h_computed = {}
    /\ h_next = 1
    /\ h_worker = <<>>
    /\ h_oob = FALSE

\* the call: the plain function computes target_bin as one numpy expression,
\* the parallel jit shares its elements between the threads
CallHisto ==
    /\ h_pc = "idle"
    /\ \E fn \in HistoVariants :
          /\ h_fn' = Some(fn)
          /\ IF fn = "histo_unrolled" \/ Len(h_dt) = 0
             THEN /\ target_bin' = [i \in 1..Len(h_dt) |->
                                      TargetBin(h_dt[i], Len(h_profile),
                                                h_cut.cut_left, h_cut.cut_right)]
                  /\ h_computed' = 1..Len(h_dt)
                  /\ h_pc' = "accumulate"
             ELSE /\ target_bin' = [i \in 1..Len(h_dt) |-> 0]
                  /\ h_computed' = {}
                  /\ h_pc' = "bins"
    /\ UNCHANGED <<h_dt, h_profile, h_profile0, h_cut, h_next, h_worker, h_oob,
                   exceptHisto>>

\* a thread computes one element of target_bin
ComputeBin ==
    /\ h_pc = "bins"
    /\ \E i \in (1..Len(h_dt)) \ h_computed :
          /\ target_bin' = [target_bin EXCEPT ![i] =
                               TargetBin(h_dt[i], Len(h_profile),
                                         h_cut.cut_left, h_cut.cut_right)]
          /\ h_computed' = h_computed \cup {i}
          /\ h_pc' = IF h_computed' = 1..Len(h_dt) THEN "accumulate" ELSE "bins"
    /\ UNCHANGED <<h_dt, h_profile, h_profile0, h_cut, h_fn, h_next, h_worker,
                   h_oob, exceptHisto>>

\* a worker takes the next i, tests target_bin[i] and reads profile[int(...)]
AccRead ==
    /\ h_pc = "accumulate"
    /\ h_next <= Len(target_bin)
    /\ \E w \in AccumulateWorkers :
          /\ h_worker[w].pc = "idle"
          /\ LET b == target_bin[h_next]
                 at == ProfileIndex(b, Len(h_profile))
             IN IF ~BinInRange(b, Len(h_profile))
                THEN UNCHANGED <<h_worker, h_oob>>
                ELSE IF at \in 1..Len(h_profile)
                THEN /\ h_worker' = [h_worker EXCEPT ![w] =
                                       [pc |-> "write", at |-> at,
                                        val |-> h_profile[at]]]
                     /\ UNCHANGED h_oob
                ELSE h_oob' = TRUE /\ UNCHANGED h_worker
    /\ h_next' = h_next + 1
    /\ UNCHANGED <<h_dt, h_profile, h_profile0, h_cut, h_fn, h_pc, target_bin,
                   h_computed, exceptHisto>>

\* the worker stores profile[int(...)] + 1.0
AccWrite ==
    /\ h_pc = "accumulate"
    /\ \E w \in AccumulateWorkers :
          /\ h_worker[w].pc = "write"
          /\ h_profile' = [h_profile EXCEPT ![h_worker[w].at] =
                              h_worker[w].val + Fx(1)]
          /\ h_worker' = [h_worker EXCEPT ![w] = WorkerIdle]
    /\ UNCHANGED <<h_dt, h_profile0, h_cut, h_fn, h_pc, target_bin, h_computed,
                   h_next, h_oob, exceptHisto>>

HistoReturn ==
    /\ h_pc = "accumulate"
    /\ h_next > Len(target_bin)
    /\ \A w \in Threads : h_worker[w].pc = "idle"
    /\ h_pc' = "done"
    /\ UNCHANGED <<h_dt, h_profile, h_profile0, h_cut, h_fn, target_bin,
                   h_computed, h_next, h_worker, h_oob, exceptHisto>>

HistoNext == CallHisto \/ ComputeBin \/ AccRead \/ AccWrite \/ HistoReturn

\* C13 as stated: with profile all zeros on entry, histo_unrolled leaves
\* profile[k] equal to the k-th count of np.histogram(dt, bins=len(profile),
\* range=(cut_left, cut_right)), also for elements equal to a cut.
C13_AsStated ==
    (h_pc = "done" /\ \A k \in 1..Len(h_profile0) : h_profile0[k] = 0) =>
       \A k \in 1..Len(h_profile) :
          h_profile[k] = Fx(np_histogram(h_dt, Len(h_profile), h_cut.cut_left,
                                         h_cut.cut_right)[k])

\* C14: histo_unrolled never indexes profile outside its bounds: an element
\* whose bin is negative or >= len(profile) is skipped, every other element
\* adds exactly 1 to exactly its bin, so sum(profile) grows by the number of
\* elements with a bin in range.
C14_BinsInBounds ==
    /\ h_oob = FALSE
    /\ \A w \in DOMAIN h_worker :
          h_worker[w].pc = "write" => h_worker[w].at \in 1..Len(h_profile)
    /\ h_pc = "done" =>
          LET bins == Len(h_profile)
              bin(i) == TargetBin(h_dt[i], bins, h_cut.cut_left, h_cut.cut_right)
              total[k \in 0..bins] ==
                  IF k = 0 THEN 0
                  ELSE total[k - 1] + (h_profile[k] - h_profile0[k])
          IN /\ \A k \in 1..bins :
                   h_profile[k] - h_profile0[k]
                      = Fx(Cardinality({i \in 1..Len(h_dt) : bin(i) = k - 1}))
             /\ total[bins]
                   = Fx(Cardinality({i \in 1..Len(h_dt) :
                                        bin(i) >= 0 /\ bin(i) < bins}))

C14_Witness ==
    /\ h_pc = "done"
    /\ Len(h_dt) = MaxHistoLen
    /\ \E i \in 1..Len(h_dt) : target_bin[i] >= Len(h_profile)
    /\ \E i \in 1..Len(h_dt) : target_bin[i] \in 0..(Len(h_profile) - 1)
    /\ \E k \in 1..Len(h_profile) : h_profile[k] = h_profile0[k] + Fx(1)

\* C16: the parallel jit of histo_unrolled loses no counts: the increments of
\* the accumulation loop run one at a time, and the profile it leaves is the
\* profile the loop run in order leaves.
C16_NoLostCounts ==
    /\ Cardinality({w \in DOMAIN h_worker : h_worker[w].pc = "write"}) <= 1
    /\ (h_pc = "done" /\ h_fn = Some("histo_jit_parallel")) =>
          h_profile = histo_unrolled(h_dt, h_profile0, h_cut.cut_left,
                                     h_cut.cut_right)

C16_Witness ==
    /\ h_pc = "done"
    /\ h_fn = Some("histo_jit_parallel")
    /\ Len(h_dt) >= 2
    /\ h_computed = 1..Len(h_dt)
    /\ target_bin[1] = target_bin[2]
    /\ BinInRange(target_bin[1], Len(h_profile))
    /\ h_profile[target_bin[1] + 1] = h_profile0[target_bin[1] + 1] + Fx(2)

\* ------------------------------------------- the GPU benchmark (intro)
\* most timed and warm-up invocations of one benchmark
MaxRepeat == 3

MaxWarmup == 2

\* a benchmark that records the start event ahead of the warm-up
BenchmarkBodyWarmupTimed ==
    <<"events", "start_record", "warmup", "start_cpu", "repeat", "end_cpu",
      "end_record", "synchronize", "elapsed", "t_cpu", "print_gpu", "print_cpu">>

\* the statements of benchmark(func, args, n_repeat, n_warmup), in order
BenchmarkBody ==
    <<"events", "warmup", "start_record", "start_cpu", "repeat", "end_cpu",
      "end_record", "synchronize", "elapsed", "t_cpu", "print_gpu", "print_cpu">>

\* time.perf_counter(): the time in seconds
perf_counter == (b_clock * SCALE) \div 1000

\* cp.cuda.get_elapsed_time(start, end): the ms between two reached events
get_elapsed_time(start, end) == Fx(Val(end) - Val(start))

BenchInit ==
    /\ b_args \in [n_repeat : 0..MaxRepeat, n_warmup : 0..MaxWarmup]
    /\ b_pc = 0
    /\ b_i = 0
    /\ b_log = <<>>
    /\ b_clock = 0
    /\ b_stream = <<>>
    /\ b_events = [start_gpu |-> NoRes, end_gpu |-> NoRes]
    /\ b_cpu = [start_cpu |-> 0, end_cpu |-> 0]
    /\ b_t = [t_gpu |-> 0, t_cpu |-> 0]
    /\ b_out = <<>>
    /\ b_status = "idle"

BenchIdle ==
    /\ b_args = <<>>
    /\ b_pc = 0
    /\ b_i = 0
    /\ b_log = <<>>
    /\ b_clock = 0
    /\ b_stream = <<>>
    /\ b_events = <<>>
    /\ b_cpu = <<>>
    /\ b_t = <<>>
    /\ b_out = <<>>
    /\ b_status = "idle"

\* the host is at the statement stmt
At(stmt) ==
    /\ b_status = "running"
    /\ b_pc \in 1..Len(BenchmarkBody)
    /\ BenchmarkBody[b_pc] = stmt

\* on to the next statement, or the return after the last
Step ==
    /\ b_pc' = b_pc + 1
    /\ b_status' = IF b_pc = Len(BenchmarkBody) THEN "returned" ELSE "running"

\* out = func(*args): the host launches the kernel and goes on
Invoke ==
    /\ b_stream' = Append(b_stream, "kernel")
    /\ b_log' = Append(b_log, "call")
    /\ b_clock' = b_clock + 1

\* for i in range(n): out = func(*args), one iteration or the end of the loop
ForRange(n) ==
    IF b_i < n
    THEN /\ Invoke
         /\ b_i' = b_i + 1
         /\ UNCHANGED <<b_pc, b_status>>
    ELSE /\ b_i' = 0
         /\ Step
         /\ UNCHANGED <<b_stream, b_log, b_clock>>

CallBenchmark ==
    /\ b_status = "idle"
    /\ b_pc = 0
    /\ b_pc' = 1
    /\ b_status' = "running"
    /\ UNCHANGED <<b_args, b_i, b_log, b_clock, b_stream, b_events, b_cpu, b_t,
                   b_out, exceptBench>>

\* start_gpu = cp.cuda.Event(); end_gpu = cp.cuda.Event()
BenchEvents ==
    /\ At("events")
    /\ b_events' = [start_gpu |-> NoRes, end_gpu |-> NoRes]
    /\ Step
    /\ UNCHANGED <<b_args, b_i, b_log, b_clock, b_stream, b_cpu, b_t, b_out,
                   exceptBench>>

BenchWarmup ==
    /\ At("warmup")
    /\ ForRange(b_args.n_warmup)
    /\ UNCHANGED <<b_args, b_events, b_cpu, b_t, b_out, exceptBench>>

\* start_gpu.record()
BenchStartRecord ==
    /\ At("start_record")
    /\ b_stream' = Append(b_stream, "start_gpu")
    /\ b_log' = Append(b_log, "start_gpu.record")
    /\ Step
    /\ UNCHANGED <<b_args, b_i, b_clock, b_events, b_cpu, b_t, b_out,
                   exceptBench>>

\* start_cpu = time.perf_counter()
BenchStartCpu ==
    /\ At("start_cpu")
    /\ b_cpu' = [b_cpu EXCEPT !.start_cpu = perf_counter]
    /\ b_log' = Append(b_log, "start_cpu")
    /\ Step
    /\ UNCHANGED <<b_args, b_i, b_clock, b_stream, b_events, b_t, b_out,
                   exceptBench>>

BenchRepeat ==
    /\ At("repeat")
    /\ ForRange(b_args.n_repeat)
    /\ UNCHANGED <<b_args, b_events, b_cpu, b_t, b_out, exceptBench>>

\* end_cpu = time.perf_counter()
BenchEndCpu ==
    /\ At("end_cpu")
    /\ b_cpu' = [b_cpu EXCEPT !.end_cpu = perf_counter]
    /\ b_log' = Append(b_log, "end_cpu")
    /\ Step
    /\ UNCHANGED <<b_args, b_i, b_clock, b_stream, b_events, b_t, b_out,
                   exceptBench>>

\* end_gpu.record()
BenchEndRecord ==
    /\ At("end_record")
    /\ b_stream' = Append(b_stream, "end_gpu")
    /\ b_log' = Append(b_log, "end_gpu.record")
    /\ Step
    /\ UNCHANGED <<b_args, b_i, b_clock, b_events, b_cpu, b_t, b_out,
                   exceptBench>>

\* a synchronize that returns at once
SynchronizeReturnsAtOnce(event) == TRUE

\* event.synchronize() returns once the device has reached the event
SynchronizeReturns(event) == b_events[event] # NoRes

\* end_gpu.synchronize()
BenchSynchronize ==
    /\ At("synchronize")
    /\ SynchronizeReturns("end_gpu")
    /\ b_log' = Append(b_log, "synchronize")
    /\ Step
    /\ UNCHANGED <<b_args, b_i, b_clock, b_stream, b_events, b_cpu, b_t, b_out,
                   exceptBench>>

\* t_gpu = cp.cuda.get_elapsed_time(start_gpu, end_gpu): an error unless the
\* device has reached both events
BenchElapsed ==
    /\ At("elapsed")
    /\ IF b_events.start_gpu # NoRes /\ b_events.end_gpu # NoRes
       THEN /\ b_t' = [b_t EXCEPT !.t_gpu = get_elapsed_time(b_events.start_gpu,
                                                             b_events.end_gpu)]
            /\ Step
       ELSE /\ b_status' = "CUDARuntimeError"
            /\ UNCHANGED <<b_t, b_pc>>
    /\ UNCHANGED <<b_args, b_i, b_log, b_clock, b_stream, b_events, b_cpu,
                   b_out, exceptBench>>

\* t_cpu = 1000 * (end_cpu - start_cpu)
BenchTCpu ==
    /\ At("t_cpu")
    /\ b_t' = [b_t EXCEPT !.t_cpu = 1000 * (b_cpu.end_cpu - b_cpu.start_cpu)]
    /\ Step
    /\ UNCHANGED <<b_args, b_i, b_log, b_clock, b_stream, b_events, b_cpu,
                   b_out, exceptBench>>

\* print('Average ... time (ms): ', t / n_repeat)
PrintAverage(t) ==
    IF b_args.n_repeat = 0
    THEN /\ b_status' = "ZeroDivisionError"
         /\ UNCHANGED <<b_out, b_pc>>
    ELSE /\ b_out' = Append(b_out, FxDiv(t, Fx(b_args.n_repeat)))
         /\ Step

BenchPrintGpu ==
    /\ At("print_gpu")
    /\ PrintAverage(b_t.t_gpu)
    /\ UNCHANGED <<b_args, b_i, b_log, b_clock, b_stream, b_events, b_cpu, b_t,
                   exceptBench>>

BenchPrintCpu ==
    /\ At("print_cpu")
    /\ PrintAverage(b_t.t_cpu)
    /\ UNCHANGED <<b_args, b_i, b_log, b_clock, b_stream, b_events, b_cpu, b_t,
                   exceptBench>>

\* the device takes the next item of the stream: it runs a kernel, or reaches
\* an event, which takes the time
DeviceStep ==
    /\ b_stream # <<>>
    /\ b_stream' = Tail(b_stream)
    /\ IF Head(b_stream) = "kernel"
       THEN b_clock' = b_clock + 1 /\ UNCHANGED b_events
       ELSE /\ b_events' = [b_events EXCEPT ![Head(b_stream)] = Some(b_clock)]
            /\ UNCHANGED b_clock
    /\ UNCHANGED <<b_args, b_pc, b_i, b_log, b_cpu, b_t, b_out, b_status,
                   exceptBench>>

BenchNext ==
    \/ CallBenchmark
    \/ BenchEvents
    \/ BenchWarmup
    \/ BenchStartRecord
    \/ BenchStartCpu
    \/ BenchRepeat
    \/ BenchEndCpu
    \/ BenchEndRecord
    \/ BenchSynchronize
    \/ BenchElapsed
    \/ BenchTCpu
    \/ BenchPrintGpu
    \/ BenchPrintCpu
    \/ DeviceStep

\* C20: benchmark invokes func exactly n_warmup + n_repeat times: the n_warmup
\* warm-up invocations all come before start_gpu is recorded, the n_repeat
\* timed ones all between the recording of start_gpu and that of end_gpu (and
\* between the two readings of the host clock), and the averages printed are
\* the elapsed times divided by n_repeat.
C20_BenchmarkCounts ==
    LET n == Len(b_log)
        has(x) == \E k \in 1..n : b_log[k] = x
        pos(x) == CHOOSE k \in 1..n : b_log[k] = x
        calls(lo, hi) == Cardinality({k \in lo..hi : b_log[k] = "call"})
    IN /\ calls(1, n) <= b_args.n_warmup + b_args.n_repeat
       /\ b_status \in {"returned", "ZeroDivisionError"} =>
             calls(1, n) = b_args.n_warmup + b_args.n_repeat
       /\ has("start_gpu.record") =>
             calls(1, pos("start_gpu.record")) = b_args.n_warmup
       /\ has("start_cpu") => calls(1, pos("start_cpu")) = b_args.n_warmup
       /\ has("end_cpu") =>
             calls(pos("start_cpu"), pos("end_cpu")) = b_args.n_repeat
       /\ has("end_gpu.record") =>
             /\ has("start_gpu.record")
             /\ calls(pos("start_gpu.record"), pos("end_gpu.record"))
                   = b_args.n_repeat
             /\ calls(pos("end_gpu.record"), n) = 0
       /\ b_status \in {"idle", "running", "returned", "ZeroDivisionError"}
       /\ b_status = "ZeroDivisionError" => b_args.n_repeat = 0 /\ b_out = <<>>
       /\ b_status = "returned" =>
             /\ b_t.t_gpu = get_elapsed_time(b_events.start_gpu, b_events.end_gpu)
             /\ b_t.t_cpu = 1000 * (b_cpu.end_cpu - b_cpu.start_cpu)
             /\ b_out = <<FxDiv(b_t.t_gpu, Fx(b_args.n_repeat)),
                          FxDiv(b_t.t_cpu, Fx(b_args.n_repeat))>>

C20_Witness ==
    /\ b_status = "returned"
    /\ b_args.n_repeat = MaxRepeat
    /\ b_args.n_warmup = MaxWarmup
    /\ Len(b_out) = 2
    /\ b_out[1] > 0
    /\ Cardinality({k \in 1..Len(b_log) : b_log[k] = "call"})
          = MaxRepeat + MaxWarmup

\* C21: benchmark reads the GPU time only after end_gpu.synchronize() has
\* returned: in every interleaving of host and device, when
\* get_elapsed_time(start_gpu, end_gpu) is evaluated the device has run every
\* kernel the invocations launched and has reached both events.
C21_SynchronizedRead ==
    /\ b_status \in {"idle", "running", "returned", "ZeroDivisionError"}
    /\ At("elapsed") =>
          /\ b_stream = <<>>
          /\ b_events.start_gpu # NoRes
          /\ b_events.end_gpu # NoRes
          /\ Val(b_events.start_gpu) <= Val(b_events.end_gpu)
          /\ \E k \in 1..Len(b_log) : b_log[k] = "synchronize"

C21_Witness ==
    /\ At("elapsed")
    /\ b_args.n_repeat = MaxRepeat
    /\ b_args.n_warmup = MaxWarmup
    /\ b_stream = <<>>
    /\ Val(b_events.end_gpu) - Val(b_events.start_gpu) >= MaxRepeat
    /\ Val(b_events.end_gpu) * SCALE > b_cpu.end_cpu * 1000

\* --------------------------------------------- the timings tables (intro)
\* np.round(r[1], 4) and np.round(r[2], 3)
time_decimals == 4

rel_decimals == 3

\* times are whole multiples of a tenth of the last printed decimal of a second
TimeUnit == 10^(time_decimals + 1)

TimeValues == {12, 25, 37}

\* the versions of the pdf table and of the discriminant table, in row order
Versions ==
    {<<"unrolled", "jit", "vec", "numpy", "parallel_jit", "parallel_vec">>,
     <<"unrolled", "numpy", "jit", "vec", "parallel_vec", "parallel_jit",
       "unrolled_explicitely_parallel">>}

\* a quotient of floats, kept as numerator and denominator
Quotient(a, b) == <<a, b>>

\* n / d rounded to a whole number, a half to the even neighbour
RoundHalfEven(n, d) ==
    LET q == n \div d
        r == n % d
    IN IF 2 * r < d THEN q
       ELSE IF 2 * r > d THEN q + 1
       ELSE IF q % 2 = 0 THEN q ELSE q + 1

\* np.round(r[1], 4) of a time
round_time(t) ==
    RoundHalfEven(t * 10^time_decimals, TimeUnit) * (TimeUnit \div 10^time_decimals)

\* np.round(r[2], 3) of a quotient
round_rel(q) == Quotient(RoundHalfEven(q[1] * 10^rel_decimals, q[2]), 10^rel_decimals)

\* an improvement over the first row
RelativeToFirst(rs, average) == Quotient(rs[1].time, average)

\* rows[-1][1] / average
RelativeImprovement(rs, average) == Quotient(rs[Len(rs)].time, average)

TableInit ==
    /\ tbl_versions \in Versions
    /\ tbl_times \in [1..Len(tbl_versions) -> TimeValues]
    /\ tbl_pc = "rows"
    /\ rows = <<>>
    /\ tbl_i = 1
    /\ table = <<>>

TableIdle ==
    /\ tbl_versions = <<>>
    /\ tbl_times = <<>>
    /\ rows = <<>>
    /\ tbl_pc = "idle"
    /\ tbl_i = 1
    /\ table = <<>>

\* rows.append(['unrolled', unrolled_time.average, 1])
AppendFirst ==
    /\ tbl_pc = "rows"
    /\ rows = <<>>
    /\ rows' = <<[version |-> tbl_versions[1], time |-> tbl_times[1],
                  rel |-> Quotient(1, 1)]>>
    /\ tbl_i' = 2
    /\ UNCHANGED <<tbl_versions, tbl_times, tbl_pc, table, exceptTable>>

\* rows.append([version, version_time.average, rows[-1][1]/version_time.average])
AppendRow ==
    /\ tbl_pc = "rows"
    /\ rows # <<>>
    /\ tbl_i <= Len(tbl_versions)
    /\ rows' = Append(rows, [version |-> tbl_versions[tbl_i],
                             time |-> tbl_times[tbl_i],
                             rel |-> RelativeImprovement(rows, tbl_times[tbl_i])])
    /\ tbl_i' = tbl_i + 1
    /\ UNCHANGED <<tbl_versions, tbl_times, tbl_pc, table, exceptTable>>

\* table = PrettyTable([...]): the rows are built, the loop over them begins
NewTable ==
    /\ tbl_pc = "rows"
    /\ tbl_i = Len(tbl_versions) + 1
    /\ tbl_pc' = "for r in rows"
    /\ tbl_i' = 1
    /\ table' = <<>>
    /\ UNCHANGED <<tbl_versions, tbl_times, rows, exceptTable>>

\* r[1] = np.round(r[1], 4); r[2] = np.round(r[2], 3); table.add_row(r)
RoundRow ==
    /\ tbl_pc = "for r in rows"
    /\ tbl_i <= Len(rows)
    /\ rows' = [rows EXCEPT ![tbl_i] = [@ EXCEPT !.time = round_time(@),
                                                 !.rel = round_rel(@)]]
    /\ table' = Append(table, rows'[tbl_i])
    /\ tbl_i' = tbl_i + 1
    /\ UNCHANGED <<tbl_versions, tbl_times, tbl_pc, exceptTable>>

\* print(table)
PrintTable ==
    /\ tbl_pc = "for r in rows"
    /\ tbl_i = Len(rows) + 1
    /\ tbl_pc' = "printed"
    /\ UNCHANGED <<tbl_versions, tbl_times, rows, tbl_i, table, exceptTable>>

TableNext == AppendFirst \/ AppendRow \/ NewTable \/ RoundRow \/ PrintTable

RECURSIVE GCD(_, _)
GCD(a, b) == IF b = 0 THEN a ELSE GCD(b, a % b)

\* a quotient in lowest terms
Reduced(q) == Quotient(q[1] \div GCD(q[1], q[2]), q[2] \div GCD(q[1], q[2]))

\* the product of the 'Relative Improvement' column of rs down to row k
RECURSIVE ColumnProduct(_, _)
ColumnProduct(rs, k) ==
    IF k = 1 THEN Reduced(rs[1].rel)
    ELSE LET p == ColumnProduct(rs, k - 1)
         IN Reduced(Quotient(p[1] * rs[k].rel[1], p[2] * rs[k].rel[2]))

\* the quotients a and b are the same number
SameNumber(a, b) == a[1] * b[2] = b[1] * a[2]

\* C23: while the rows are built they hold the unrounded times, the first
\* row's 'Relative Improvement' is 1 and every later row's is the time of the
\* row above divided by its own time, so that the column's product down to
\* row k is the first time divided by row k's time; the rows added to the
\* printed table hold the time rounded to 4 decimals and that improvement
\* rounded to 3 decimals.
C23_RelativeImprovement ==
    /\ tbl_pc = "rows" =>
          /\ Len(rows) = tbl_i - 1
          /\ \A k \in 1..Len(rows) :
                /\ rows[k].version = tbl_versions[k]
                /\ rows[k].time = tbl_times[k]
                /\ k = 1 => rows[k].rel = Quotient(1, 1)
                /\ k > 1 => SameNumber(rows[k].rel,
                                       Quotient(tbl_times[k - 1], tbl_times[k]))
                /\ SameNumber(ColumnProduct(rows, k),
                              Quotient(tbl_times[1], tbl_times[k]))
    /\ tbl_pc \in {"for r in rows", "printed"} =>
          /\ Len(table) = tbl_i - 1
          /\ Len(rows) = Len(tbl_versions)
          /\ \A k \in 1..Len(table) :
                /\ table[k] = rows[k]
                /\ table[k].version = tbl_versions[k]
                /\ table[k].time = round_time(tbl_times[k])
                /\ k = 1 => SameNumber(table[k].rel, Quotient(1, 1))
                /\ k > 1 => table[k].rel =
                                round_rel(Quotient(tbl_times[k - 1], tbl_times[k]))
          /\ \A k \in Len(table) + 1..Len(rows) : rows[k].time = tbl_times[k]

\* C23 as stated: the product of the printed column down to row k is the
\* first time divided by row k's time.
C23_AsStated ==
    tbl_pc = "printed" =>
        \A k \in 1..Len(table) :
            SameNumber(ColumnProduct(table, k), Quotient(tbl_times[1], tbl_times[k]))

\* a printed table of seven rows in which a time and an improvement were
\* changed by the rounding
C23_Witness ==
    /\ tbl_pc = "printed"
    /\ Len(table) = 7
    /\ \E k \in 1..Len(table) : table[k].time # tbl_times[k]
    /\ \E k \in 2..Len(table) :
          /\ tbl_times[k - 1] # tbl_times[k]
          /\ ~SameNumber(table[k].rel, Quotient(tbl_times[k - 1], tbl_times[k]))

\* -------------------------------------------------------- specifications
PdfIdle ==
    /\ x_arr = <<>>
    /\ vec_res = NoRes
    /\ numpy_res = NoRes
    /\ allclose_res = NoRes

InitPdf ==
    /\ PdfInit
    /\ PrangeIdle
    /\ AccessInit
    /\ KickIdle
    /\ DiscIdle
    /\ TrackIdle
    /\ AddInit
    /\ NjitInit
    /\ VecIdle
    /\ HistoIdle
    /\ BenchIdle
    /\ TableIdle

SpecPdf == InitPdf /\ [][PdfNext]_vars

InitPrange ==
    /\ PdfInit
    /\ PrangeIdle
    /\ AccessInit
    /\ KickIdle
    /\ DiscIdle
    /\ TrackIdle
    /\ AddInit
    /\ NjitInit
    /\ VecIdle
    /\ HistoIdle
    /\ BenchIdle
    /\ TableIdle

SpecPrange == InitPrange /\ [][PrangeNext]_vars

InitAccess ==
    /\ PdfIdle
    /\ PrangeIdle
    /\ AccessInit
    /\ KickIdle
    /\ DiscIdle
    /\ TrackIdle
    /\ AddInit
    /\ NjitInit
    /\ VecIdle
    /\ HistoIdle
    /\ BenchIdle
    /\ TableIdle

SpecAccess == InitAccess /\ [][AccessNext]_vars

InitKick ==
    /\ PdfIdle
    /\ PrangeIdle
    /\ AccessInit
    /\ KickInit
    /\ DiscIdle
    /\ TrackIdle
    /\ AddInit
    /\ NjitInit
    /\ VecIdle
    /\ HistoIdle
    /\ BenchIdle
    /\ TableIdle

SpecKick == InitKick /\ [][KickNext]_vars

InitDisc ==
    /\ PdfIdle
    /\ PrangeIdle
    /\ AccessInit
    /\ KickIdle
    /\ DiscInit
    /\ TrackIdle
    /\ AddInit
    /\ NjitInit
    /\ VecIdle
    /\ HistoIdle
    /\ BenchIdle
    /\ TableIdle

SpecDisc == InitDisc /\ [][DiscNext]_vars

InitTrack ==
    /\ PdfIdle
    /\ PrangeIdle
    /\ AccessInit
    /\ KickIdle
    /\ DiscIdle
    /\ TrackInit
    /\ AddInit
    /\ NjitInit
    /\ VecIdle
    /\ HistoIdle
    /\ BenchIdle
    /\ TableIdle

SpecTrack == InitTrack /\ [][TrackNext]_vars

InitAdd ==
    /\ PdfIdle
    /\ PrangeIdle
    /\ AccessInit
    /\ KickIdle
    /\ DiscIdle
    /\ TrackIdle
    /\ AddInit
    /\ NjitInit
    /\ VecIdle
    /\ HistoIdle
    /\ BenchIdle
    /\ TableIdle

SpecAdd == InitAdd /\ [][AddNext]_vars

InitNjit ==
    /\ PdfIdle
    /\ PrangeIdle
    /\ AccessInit
    /\ KickIdle
    /\ DiscIdle
    /\ TrackIdle
    /\ AddInit
    /\ NjitInit
    /\ VecIdle
    /\ HistoIdle
    /\ BenchIdle
    /\ TableIdle

SpecNjit == InitNjit /\ [][NjitNext]_vars

InitVec ==
    /\ PdfIdle
    /\ PrangeIdle
    /\ AccessInit
    /\ KickIdle
    /\ DiscIdle
    /\ TrackIdle
    /\ AddInit
    /\ NjitInit
    /\ VecInit
    /\ HistoIdle
    /\ BenchIdle
    /\ TableIdle

SpecVec == InitVec /\ [][VecNext]_vars

InitHisto ==
    /\ PdfIdle
    /\ PrangeIdle
    /\ AccessInit
    /\ KickIdle
    /\ DiscIdle
    /\ TrackIdle
    /\ AddInit
    /\ NjitInit
    /\ VecIdle
    /\ HistoInit
    /\ BenchIdle
    /\ TableIdle

SpecHisto == InitHisto /\ [][HistoNext]_vars

InitBench ==
    /\ PdfIdle
    /\ PrangeIdle
    /\ AccessInit
    /\ KickIdle
    /\ DiscIdle
    /\ TrackIdle
    /\ AddInit
    /\ NjitInit
    /\ VecIdle
    /\ HistoIdle
    /\ BenchInit
    /\ TableIdle

SpecBench == InitBench /\ [][BenchNext]_vars

InitTable ==
    /\ PdfIdle
    /\ PrangeIdle
    /\ AccessInit
    /\ KickIdle
    /\ DiscIdle
    /\ TrackIdle
    /\ AddInit
    /\ NjitInit
    /\ VecIdle
    /\ HistoIdle
    /\ BenchIdle
    /\ TableInit

SpecTable == InitTable /\ [][TableNext]_vars

====
